---- MODULE Spec2Model ----
(***************************************************************************)
(* State-machine model of the arbitrage paper-trading core of              *)
(* Arbitrage_Bot/utility/arbitrage_file.py: ExchangeAPI (price cache and   *)
(* common pairs), ArbitrageAnalyzer (finder and sizing),                   *)
(* TransactionManager.get_best_opportunity (selector) and                  *)
(* SimulationTrading (ledger seeding, legs, reconciliation, cycle).        *)
(*                                                                         *)
(* Python floats are modelled as exact rationals <<n, d>> with d > 0 in    *)
(* lowest terms: IEEE rounding is abstracted away, every comparison, min,  *)
(* product and quotient is otherwise computed as the code computes it.     *)
(* A Python exception is modelled as a result record whose err field is    *)
(* the exception's class name; "" means the call returned.                 *)
(***************************************************************************)
EXTENDS Integers, Sequences, FiniteSets, TLC

----------------------------------------------------------------------------
(* Exact rational arithmetic standing for Python float arithmetic.          *)

RECURSIVE GCD(_, _)
GCD(a, b) == IF b = 0 THEN a ELSE GCD(b, a % b)

IAbs(n) == IF n < 0 THEN -n ELSE n

Norm(n, d) ==
    LET g == GCD(IAbs(n), d) IN <<n \div g, d \div g>>

R(n) == <<n, 1>>

Frac(n, d) == Norm(n, d)

RAdd(a, b) ==
    LET g == GCD(a[2], b[2])
        da == a[2] \div g
        db == b[2] \div g
    IN Norm(a[1] * db + b[1] * da, da * b[2])

RNeg(a) == <<-a[1], a[2]>>

RSub(a, b) == RAdd(a, RNeg(b))

RMul(a, b) ==
    LET g1 == GCD(IAbs(a[1]), b[2])
        g2 == GCD(IAbs(b[1]), a[2])
    IN Norm((a[1] \div g1) * (b[1] \div g2), (a[2] \div g2) * (b[2] \div g1))

RInv(a) == IF a[1] < 0 THEN <<-a[2], -a[1]>> ELSE <<a[2], a[1]>>

RDiv(a, b) == RMul(a, RInv(b))

RLt(a, b) == a[1] * b[2] < b[1] * a[2]

RLe(a, b) == a[1] * b[2] <= b[1] * a[2]

RAbs(a) == <<IAbs(a[1]), a[2]>>

RMin(a, b) == IF RLt(b, a) THEN b ELSE a

Zero == R(0)

----------------------------------------------------------------------------
(* Venues, symbols and the program state.                                   *)

BTCUSDT == <<"BTC", "USDT">>

ETHUSDT == <<"ETH", "USDT">>

Symbols == {BTCUSDT, ETHUSDT}

Venues == {"bybit", "bitstamp", "kraken"}

\* Python's None (get_best_opportunity's "not profitable" result, an unset op).
None == [none |-> TRUE]

VARIABLES
    apiExchanges,       \* ExchangeAPI.exchanges: the initialized venues, in config order
    markets,            \* venue -> set of symbols its load_markets() lists
    market,             \* <<symbol, venue>> -> the venue's current last price
    down,               \* the <<symbol, venue>> whose ticker request currently fails
    cache,              \* ExchangeAPI.cache: <<symbol, venue>> -> price first fetched
    hashOrder,          \* iteration order of a Python set of symbols in this process
    config,             \* the configuration values the core reads
    initial_balance,    \* SimulationTrading.initial_balance
    exchanges,          \* SimulationTrading.exchanges: venue -> balance sheet; <<>> is None
    conversion_prices,  \* SimulationTrading.conversion_prices
    scanList,           \* the venue list passed to find_opportunities / run_simulation
    opportunities,      \* the list find_opportunities returned
    op,                 \* the result of get_best_opportunity
    pair_lists,         \* the dict get_common_currency_pairs returned to a direct caller
    pc,                 \* position of the caller / of run_simulation
    cycle,              \* number of run_simulation calls that returned
    prev,               \* history: the ledger before the latest step acting on it
    leg_usd,            \* history: the usd_amount handed to the latest leg
    err                 \* the exception that escaped to the caller and the step it left

vars == <<apiExchanges, markets, market, down, cache, hashOrder, config, initial_balance,
          pair_lists, exchanges, conversion_prices, scanList, opportunities, op, pc, cycle,
          prev, leg_usd, err>>

\* What no step of the core writes: the venues' side, the configuration, the caller's
\* arguments and the result kept by a direct caller of get_common_currency_pairs.
gateway == <<apiExchanges, markets, market, down, hashOrder, config, initial_balance,
             scanList, pair_lists>>

Range(s) == {s[i] : i \in 1..Len(s)}

\* d[k] = v on a Python dict d (insert or overwrite).
Put(d, k, v) == [x \in DOMAIN d \cup {k} |-> IF x = k THEN v ELSE d[x]]

----------------------------------------------------------------------------
(* ExchangeAPI                                                              *)

\* exchange.fetch_ticker(coin)['last']: the venue answers for the symbols it lists,
\* unless the request fails.
fetch_ticker_ok(coin, exchange_name) ==
    coin \in markets[exchange_name] /\ <<coin, exchange_name>> \notin down

\* get_price(coin, exchange_name) against cache c: the cached value wins, an
\* unknown venue raises ValueError, a failing ticker raises, a fetched price is cached.
get_price(c, coin, exchange_name) ==
    LET key == <<coin, exchange_name>> IN
    IF key \in DOMAIN c
    THEN [err |-> "", price |-> c[key], cache |-> c]
    ELSE IF exchange_name \notin Range(apiExchanges)
    THEN [err |-> "ValueError", price |-> Zero, cache |-> c]
    ELSE IF ~fetch_ticker_ok(coin, exchange_name)
    THEN [err |-> IF coin \in markets[exchange_name] THEN "NetworkError" ELSE "BadSymbol",
          price |-> Zero, cache |-> c]
    ELSE [err |-> "", price |-> market[key], cache |-> Put(c, key, market[key])]

\* list(some_set): the members of S in the process's set iteration order.
set_to_list(S) == SelectSeq(hashOrder, LAMBDA s : s \in S)

\* xs[:n]
take(xs, n) == SubSeq(xs, 1, IF n < Len(xs) THEN n ELSE Len(xs))

\* The (i, j) index pairs, i < j, in the order of the two nested loops.
RECURSIVE index_pairs(_, _, _)
index_pairs(i, j, n) ==
    IF i > n THEN <<>>
    ELSE IF j > n THEN index_pairs(i + 1, i + 2, n)
    ELSE <<<<i, j>>>> \o index_pairs(i, j + 1, n)

\* The list one venue pair gets: the allow-list filtered to both listings, or the
\* first top_n of the intersection in set order.
common_of(e1, e2) ==
    IF config.selected_assets # <<>>
    THEN SelectSeq(config.selected_assets,
                   LAMBDA s : s \in markets[e1] /\ s \in markets[e2])
    ELSE take(set_to_list(markets[e1] \cap markets[e2]), config.top_n)

\* get_common_currency_pairs(exchange_list): the dict as a sequence of
\* [pair, currencies] entries in insertion order. Without an allow-list a pair with
\* an unknown venue is skipped; with one, None.load_markets() raises AttributeError
\* (the second venue's listing is read only for a symbol the first venue lists).
get_common_currency_pairs(exchange_list) ==
    LET ij == index_pairs(1, 2, Len(exchange_list))
        isKnown(e) == e \in Range(apiExchanges)
        known(p) == isKnown(exchange_list[p[1]]) /\ isKnown(exchange_list[p[2]])
        raises(p) ==
            \/ ~isKnown(exchange_list[p[1]])
            \/ /\ ~isKnown(exchange_list[p[2]])
               /\ \E s \in Range(config.selected_assets) : s \in markets[exchange_list[p[1]]]
        entry(p) == [pair |-> <<exchange_list[p[1]], exchange_list[p[2]]>>,
                     currencies |-> IF known(p)
                                    THEN common_of(exchange_list[p[1]], exchange_list[p[2]])
                                    ELSE <<>>]
        kept == IF config.selected_assets # <<>> THEN ij ELSE SelectSeq(ij, known)
    IN IF config.selected_assets # <<>> /\ \E k \in 1..Len(ij) : raises(ij[k])
       THEN [err |-> "AttributeError", val |-> <<>>]
       ELSE [err |-> "", val |-> [k \in 1..Len(kept) |-> entry(kept[k])]]

----------------------------------------------------------------------------
(* ArbitrageAnalyzer                                                        *)

\* The (pair, currency) iterations of find_opportunities' two loops, in order.
RECURSIVE scan_jobs(_)
scan_jobs(common_pairs) ==
    IF common_pairs = <<>> THEN <<>>
    ELSE LET e == Head(common_pairs) IN
         [k \in 1..Len(e.currencies) |->
             [exchange_1 |-> e.pair[1], exchange_2 |-> e.pair[2],
              currency |-> e.currencies[k]]]
         \o scan_jobs(Tail(common_pairs))

\* Mutation of compare_prices: the threshold test written > instead of >=.
compare_prices_strict(job, price_1, price_2) ==
    IF RLt(config.min_price_difference, RAbs(RSub(price_1, price_2)))
    THEN IF RLt(price_1, price_2)
         THEN <<[buy_exchange |-> job.exchange_1, sell_exchange |-> job.exchange_2,
                 currency |-> job.currency, buy_price |-> price_1, sell_price |-> price_2]>>
         ELSE <<[buy_exchange |-> job.exchange_2, sell_exchange |-> job.exchange_1,
                 currency |-> job.currency, buy_price |-> price_2, sell_price |-> price_1]>>
    ELSE <<>>

\* The body of the inner loop for prices price_1, price_2: the opportunities appended.
compare_prices(job, price_1, price_2) ==
    IF RLe(config.min_price_difference, RAbs(RSub(price_1, price_2)))
    THEN IF RLt(price_1, price_2)
         THEN <<[buy_exchange |-> job.exchange_1, sell_exchange |-> job.exchange_2,
                 currency |-> job.currency, buy_price |-> price_1, sell_price |-> price_2]>>
         ELSE <<[buy_exchange |-> job.exchange_2, sell_exchange |-> job.exchange_1,
                 currency |-> job.currency, buy_price |-> price_2, sell_price |-> price_1]>>
    ELSE <<>>

\* The loops of find_opportunities over the remaining jobs, from cache c with acc
\* found so far; a get_price exception ends the scan and escapes.
RECURSIVE scan(_, _, _)
scan(jobs, c, acc) ==
    IF jobs = <<>> THEN [err |-> "", val |-> acc, cache |-> c]
    ELSE LET job == Head(jobs)
             p1 == get_price(c, job.currency, job.exchange_1)
             p2 == get_price(p1.cache, job.currency, job.exchange_2)
         IN IF p1.err # "" THEN [err |-> p1.err, val |-> <<>>, cache |-> p1.cache]
            ELSE IF p2.err # "" THEN [err |-> p2.err, val |-> <<>>, cache |-> p2.cache]
            ELSE scan(Tail(jobs), p2.cache, acc \o compare_prices(job, p1.price, p2.price))

find_opportunities(c, exchange_list) ==
    LET common_pairs == get_common_currency_pairs(exchange_list) IN
    IF common_pairs.err # ""
    THEN [err |-> common_pairs.err, val |-> <<>>, cache |-> c]
    ELSE scan(scan_jobs(common_pairs.val), c, <<>>)

\* calculate_trade_amount(opportunity, balance)
calculate_trade_amount(opportunity, balance) ==
    LET max_position_size == RMul(balance, config.max_trade_balance_percentage)
        price_difference == RSub(opportunity.sell_price, opportunity.buy_price)
        trade_amount_based_on_difference ==
            RMul(price_difference, config.price_difference_threshold)
        trade_amount == RMin(max_position_size, trade_amount_based_on_difference)
    IN IF RLt(config.max_position_size, trade_amount)
       THEN config.max_position_size
       ELSE trade_amount

----------------------------------------------------------------------------
(* TransactionManager                                                       *)

spread(x) == RSub(x.sell_price, x.buy_price)

\* Mutation of max_by_spread: min() written for max().
RECURSIVE min_by_spread(_, _)
min_by_spread(best, rest) ==
    IF rest = <<>> THEN best
    ELSE min_by_spread(IF RLt(spread(Head(rest)), spread(best)) THEN Head(rest) ELSE best,
                       Tail(rest))

\* max(opportunities, key=spread) of a non-empty list: the first element whose key
\* no other element exceeds.
RECURSIVE max_by_spread(_, _)
max_by_spread(best, rest) ==
    IF rest = <<>> THEN best
    ELSE max_by_spread(IF RLt(spread(best), spread(Head(rest))) THEN Head(rest) ELSE best,
                       Tail(rest))

\* Mutation of get_best_opportunity: the sell_price <= buy_price guard left out.
get_best_opportunity_unguarded(opps) ==
    IF opps = <<>> THEN [err |-> "ValueError", val |-> None]
    ELSE [err |-> "", val |-> max_by_spread(Head(opps), Tail(opps))]

\* get_best_opportunity(opportunities): max() of an empty list raises ValueError;
\* a best element with sell_price <= buy_price gives None.
get_best_opportunity(opps) ==
    IF opps = <<>> THEN [err |-> "ValueError", val |-> None]
    ELSE LET best_opportunity == max_by_spread(Head(opps), Tail(opps)) IN
         IF RLe(best_opportunity.sell_price, best_opportunity.buy_price)
         THEN [err |-> "", val |-> None]
         ELSE [err |-> "", val |-> best_opportunity]

\* execute_trade(opportunity): the orders need opportunity['amount'], a key the
\* finder's records do not carry (KeyError); otherwise the two orders are placed.
execute_trade(opportunity) ==
    IF "amount" \notin DOMAIN opportunity
    THEN [err |-> "KeyError", val |-> None]
    ELSE [err |-> "", val |-> opportunity]

\* execute_best_trade(opportunities): None for an empty list; subscripting the None
\* that get_best_opportunity returns raises TypeError; val is the opportunity traded.
execute_best_trade(opps) ==
    IF opps = <<>> THEN [err |-> "", val |-> None]
    ELSE LET best_opportunity == get_best_opportunity(opps) IN
         IF best_opportunity.val = None THEN [err |-> "TypeError", val |-> None]
         ELSE IF RLe(best_opportunity.val.sell_price, best_opportunity.val.buy_price)
         THEN [err |-> "", val |-> None]
         ELSE execute_trade(best_opportunity.val)

----------------------------------------------------------------------------
(* SimulationTrading                                                        *)

Reference == {"USDT", "USD"}

\* The "main" currency create_balance funds for a pair.
seed_main_currency(pair) ==
    IF pair[2] \in Reference THEN pair[1]
    ELSE IF pair[1] \in Reference THEN pair[2]
    ELSE pair[1]

\* The "main" currency simulate_buy and simulate_sell credit and debit for a pair.
leg_main_currency(pair) ==
    IF pair[2] \in Reference THEN pair[1] ELSE pair[2]

\* The concatenation of the lists of every venue pair (currency_pairs.extend).
RECURSIVE extend_all(_)
extend_all(common_pairs) ==
    IF common_pairs = <<>> THEN <<>>
    ELSE Head(common_pairs).currencies \o extend_all(Tail(common_pairs))

\* The inner loop of create_balance for one venue over the remaining pairs.
RECURSIVE seed_pairs(_, _, _, _, _, _)
seed_pairs(pairs, exchange, portion_balance, balances, c, conv) ==
    IF pairs = <<>> THEN [err |-> "", balances |-> balances, cache |-> c, conv |-> conv]
    ELSE LET main_currency == seed_main_currency(Head(pairs)) IN
         IF main_currency = "USDT"
         THEN seed_pairs(Tail(pairs), exchange, portion_balance, balances, c, conv)
         ELSE LET main_price == get_price(c, <<main_currency, "USDT">>, exchange)
                  old == IF exchange \in DOMAIN conv THEN conv[exchange] ELSE <<>>
                  conv2 == Put(conv, exchange, Put(old, main_currency, main_price.price))
                  main_amount == RDiv(portion_balance, main_price.price)
                  had == IF main_currency \in DOMAIN balances
                         THEN balances[main_currency] ELSE Zero
              IN IF main_price.err # ""
                 THEN [err |-> main_price.err, balances |-> balances,
                       cache |-> main_price.cache, conv |-> conv]
                 ELSE seed_pairs(Tail(pairs), exchange, portion_balance,
                                 Put(balances, main_currency, RAdd(had, main_amount)),
                                 main_price.cache, conv2)

\* The outer loop of create_balance over the remaining venues; built is
\* exchange_balances, ledger is self.exchanges (assigned at the end of each pass).
RECURSIVE seed_exchanges(_, _, _, _, _, _, _, _)
seed_exchanges(list, pairs, portion_balance, balance_remaining, built, ledger, c, conv) ==
    IF list = <<>>
    THEN [err |-> "", exchanges |-> ledger, cache |-> c, conversion_prices |-> conv]
    ELSE LET exchange == Head(list)
             r == seed_pairs(pairs, exchange, portion_balance, <<>>, c, conv)
             final_balances == Put(r.balances, "balance", balance_remaining)
             built2 == Put(built, exchange, final_balances)
         IN IF r.err # ""
            THEN [err |-> r.err, exchanges |-> ledger, cache |-> r.cache,
                  conversion_prices |-> r.conv]
            ELSE seed_exchanges(Tail(list), pairs, portion_balance, balance_remaining,
                                built2, built2, r.cache, r.conv)

\* create_balance() from ledger ex, cache c, audit prices conv.
create_balance(ex, c, conv) ==
    LET exchange_list == apiExchanges
        common_pairs_dict == get_common_currency_pairs(exchange_list)
        currency_pairs == extend_all(common_pairs_dict.val)
        balance_for_conversion == RMul(Frac(2, 3), initial_balance)
        balance_remaining == RMul(Frac(1, 3), initial_balance)
    IN IF common_pairs_dict.err # ""
       THEN [err |-> common_pairs_dict.err, exchanges |-> ex, cache |-> c,
             conversion_prices |-> conv]
       ELSE IF Len(currency_pairs) = 0
       THEN [err |-> "ZeroDivisionError", exchanges |-> ex, cache |-> c,
             conversion_prices |-> conv]
       ELSE seed_exchanges(exchange_list, currency_pairs,
                           RDiv(balance_for_conversion, R(Len(currency_pairs))),
                           balance_remaining, <<>>, ex, c, conv)

\* The first loop of revert_to_dollars for one venue: total_converted over the
\* currencies left in todo.
RECURSIVE convert_total(_, _, _, _, _)
convert_total(todo, exchange, balances, c, total_converted) ==
    IF todo = {} THEN [err |-> "", total |-> total_converted, cache |-> c]
    ELSE LET currency == CHOOSE x \in todo : TRUE
             conversion_price == get_price(c, <<currency, "USDT">>, exchange)
         IN IF conversion_price.err # ""
            THEN [err |-> conversion_price.err, total |-> total_converted,
                  cache |-> conversion_price.cache]
            ELSE convert_total(todo \ {currency}, exchange, balances,
                               conversion_price.cache,
                               RAdd(total_converted,
                                    RMul(balances[currency], conversion_price.price)))

\* Mutation of reverted_sheet: cash is restored but the holdings are not zeroed.
reverted_sheet_kept(balances, total_converted) ==
    [balances EXCEPT !["balance"] = RAdd(@, total_converted)]

\* Mutation of reverted_sheet: the holdings are zeroed but cash is not credited.
reverted_sheet_uncredited(balances, total_converted) ==
    [k \in DOMAIN balances |-> IF k = "balance" THEN balances["balance"] ELSE Zero]

\* What revert_to_dollars leaves of one venue's sheet given total_converted.
reverted_sheet(balances, total_converted) ==
    [k \in DOMAIN balances |->
        IF k = "balance" THEN RAdd(balances["balance"], total_converted) ELSE Zero]

\* The loop of revert_to_dollars over the remaining venues of the ledger.
RECURSIVE revert_exchanges(_, _, _)
revert_exchanges(list, ex, c) ==
    IF list = <<>> THEN [err |-> "", exchanges |-> ex, cache |-> c]
    ELSE LET exchange == Head(list)
             balances == ex[exchange]
             t == convert_total(DOMAIN balances \ {"balance"}, exchange, balances, c, Zero)
         IN IF t.err # "" THEN [err |-> t.err, exchanges |-> ex, cache |-> t.cache]
            ELSE revert_exchanges(Tail(list),
                                  [ex EXCEPT ![exchange] = reverted_sheet(balances, t.total)],
                                  t.cache)

\* revert_to_dollars() on ledger ex; None.items() raises AttributeError.
revert_to_dollars(ex, c) ==
    IF DOMAIN ex = {} THEN [err |-> "AttributeError", exchanges |-> ex, cache |-> c]
    ELSE revert_exchanges(SelectSeq(apiExchanges, LAMBDA e : e \in DOMAIN ex), ex, c)

\* get_exchange_balance(exchange_name)
get_exchange_balance(ex, exchange_name) ==
    IF exchange_name \in DOMAIN ex /\ "balance" \in DOMAIN ex[exchange_name]
    THEN ex[exchange_name]["balance"]
    ELSE Zero

\* convert_to_usd(coin, price)
convert_to_usd(coin, price) == RMul(coin, price)

commission == Frac(25, 10000)

max_commission == 5

\* Mutation of leg_currency_amount: the commission is not capped at max_commission.
leg_currency_amount_uncapped(usd_amount, price) ==
    RDiv(RSub(usd_amount, RMul(usd_amount, commission)), price)

\* The currency amount a leg of usd_amount moves at price.
leg_currency_amount(usd_amount, price) ==
    LET commission_amount_usdt == RMin(RMul(usd_amount, commission), R(max_commission))
        amount_after_commission_usdt == RSub(usd_amount, commission_amount_usdt)
    IN RDiv(amount_after_commission_usdt, price)

\* simulate_buy(currency_pair, usd_amount, opportunities) on ledger ex.
simulate_buy(ex, currency_pair, usd_amount, opportunity) ==
    LET exchange == opportunity.buy_exchange
        main_currency == leg_main_currency(currency_pair)
        bought_currency_amount == leg_currency_amount(usd_amount, opportunity.buy_price)
    IN IF exchange \notin DOMAIN ex \/ main_currency \notin DOMAIN ex[exchange]
       THEN [err |-> "KeyError", exchanges |-> ex]
       ELSE [err |-> "",
             exchanges |->
                [ex EXCEPT ![exchange] =
                    [@ EXCEPT ![main_currency] = RAdd(@, bought_currency_amount),
                              !["balance"] = RSub(@, usd_amount)]]]

\* simulate_sell(currency_pair, usd_amount, opportunities) on ledger ex.
simulate_sell(ex, currency_pair, usd_amount, opportunity) ==
    LET exchange == opportunity.sell_exchange
        main_currency == leg_main_currency(currency_pair)
        sold_currency_amount == leg_currency_amount(usd_amount, opportunity.sell_price)
    IN IF exchange \notin DOMAIN ex \/ main_currency \notin DOMAIN ex[exchange]
       THEN [err |-> "KeyError", exchanges |-> ex]
       ELSE [err |-> "",
             exchanges |->
                [ex EXCEPT ![exchange] =
                    [@ EXCEPT ![main_currency] = RSub(@, sold_currency_amount),
                              !["balance"] = RAdd(@, usd_amount)]]]

\* convert_coin(coin, exchange, balance_coin) on ledger ex with cache c.
convert_coin(ex, c, coin, exchange, balance_coin) ==
    LET currency == get_price(c, coin, exchange) IN
    IF currency.err # ""
    THEN [err |-> currency.err, exchanges |-> ex, cache |-> currency.cache]
    ELSE IF exchange \notin DOMAIN ex
    THEN [err |-> "KeyError", exchanges |-> ex, cache |-> currency.cache]
    ELSE [err |-> "", cache |-> currency.cache,
          exchanges |-> [ex EXCEPT ![exchange]["balance"] = RSub(@, balance_coin)]]

----------------------------------------------------------------------------
(* Bounds and input sets.                                                   *)

MaxCycles == 2

MaxLen == 3

NoErr == [name |-> "", at |-> ""]

Raised(name) == [name |-> name, at |-> pc]

Keys == Symbols \X Venues

PriceSet == {R(2000), R(2020)}

ThresholdSet == {R(0), Frac(1, 100), R(20), R(30)}

Perms == {<<BTCUSDT, ETHUSDT>>, <<ETHUSDT, BTCUSDT>>}

AllowLists == {<<>>, <<ETHUSDT>>, <<BTCUSDT, ETHUSDT>>}

TopNDefault == 10

Config(mpd, sel, top, pdt, mps) ==
    [min_price_difference |-> mpd, selected_assets |-> sel, top_n |-> top,
     max_trade_balance_percentage |-> Frac(1, 10),
     price_difference_threshold |-> pdt, max_position_size |-> mps]

----------------------------------------------------------------------------
(* The simulation: main.py's loop calling run_simulation, then revert_to_dollars. *)

MarketOptions ==
    { [v \in Venues |-> Symbols],
      [v \in Venues |-> IF v = "bitstamp" THEN {ETHUSDT} ELSE Symbols],
      [v \in Venues |-> IF v = "bitstamp" THEN {BTCUSDT} ELSE {ETHUSDT}],
      [v \in Venues |-> {BTCUSDT}] }

Init ==
    /\ apiExchanges = <<"bybit", "bitstamp">>
    /\ scanList = <<"bybit", "bitstamp">>
    /\ markets \in MarketOptions
    /\ \E pb, pe \in PriceSet, qb, qe \in PriceSet :
          market = [k \in Keys |->
                       IF k[2] = "bybit" THEN (IF k[1] = BTCUSDT THEN pb ELSE pe)
                       ELSE (IF k[1] = BTCUSDT THEN qb ELSE qe)]
    /\ down = {}
    /\ pair_lists = <<>>
    /\ hashOrder \in Perms
    /\ \E mpd \in ThresholdSet, sel \in AllowLists,
          pdt \in {Frac(1, 100), R(1)}, mps \in {Frac(1, 10), R(1000)} :
          config = Config(mpd, sel, TopNDefault, pdt, mps)
    /\ initial_balance = R(6000)
    /\ cache = <<>>
    /\ exchanges = <<>>
    /\ conversion_prices = <<>>
    /\ opportunities = <<>>
    /\ op = None
    /\ pc = "idle"
    /\ cycle = 0
    /\ prev = <<>>
    /\ leg_usd = Zero
    /\ err = NoErr

\* run_simulation is entered: create_balance() (lines 511-513).
RunSimulation ==
    /\ pc = "idle" /\ cycle < MaxCycles
    /\ LET r == create_balance(exchanges, cache, conversion_prices) IN
       /\ exchanges' = r.exchanges
       /\ cache' = r.cache
       /\ conversion_prices' = r.conversion_prices
       /\ prev' = exchanges
       /\ IF r.err # "" THEN pc' = "raised" /\ err' = Raised(r.err)
          ELSE pc' = "find" /\ err' = err
    /\ opportunities' = <<>> /\ op' = None
    /\ UNCHANGED <<gateway, cycle, leg_usd>>

\* opportunities = find_opportunities(list_name_exchenges) (line 517).
FindStep ==
    /\ pc = "find"
    /\ LET r == find_opportunities(cache, scanList) IN
       /\ cache' = r.cache
       /\ opportunities' = r.val
       /\ IF r.err # "" THEN pc' = "raised" /\ err' = Raised(r.err)
          ELSE pc' = "select" /\ err' = err
    /\ UNCHANGED <<gateway, exchanges, conversion_prices, op, cycle, prev, leg_usd>>

\* op = get_best_opportunity(opportunities) (lines 519-522): an empty list is only
\* logged before max() is applied to it.
SelectStep ==
    /\ pc = "select"
    /\ LET r == get_best_opportunity(opportunities) IN
       /\ op' = r.val
       /\ IF r.err # "" THEN pc' = "raised" /\ err' = Raised(r.err)
          ELSE pc' = "buy" /\ err' = err
    /\ UNCHANGED <<gateway, cache, exchanges, conversion_prices, opportunities, cycle,
                   prev, leg_usd>>

\* The buy leg (lines 524-530); op["buy_exchange"] on None raises TypeError.
BuyStep ==
    /\ pc = "buy"
    /\ IF op = None
       THEN /\ pc' = "raised" /\ err' = Raised("TypeError")
            /\ UNCHANGED <<exchanges, prev, leg_usd>>
       ELSE LET balance_exchenges == get_exchange_balance(exchanges, op.buy_exchange)
                buy_amount_coin == calculate_trade_amount(op, balance_exchenges)
                buy_amount_usdt == convert_to_usd(buy_amount_coin, op.buy_price)
                r == simulate_buy(exchanges, op.currency, buy_amount_usdt, op)
            IN /\ exchanges' = r.exchanges
               /\ prev' = exchanges
               /\ leg_usd' = buy_amount_usdt
               /\ IF r.err # "" THEN pc' = "raised" /\ err' = Raised(r.err)
                  ELSE pc' = "sell" /\ err' = err
    /\ UNCHANGED <<gateway, cache, conversion_prices, opportunities, op, cycle>>

\* The sell leg (lines 532-538).
SellStep ==
    /\ pc = "sell"
    /\ LET balance_exchenges_sell == get_exchange_balance(exchanges, op.sell_exchange)
           sell_amount_coin == calculate_trade_amount(op, balance_exchenges_sell)
           sell_amount_usdt == convert_to_usd(sell_amount_coin, op.sell_price)
           r == simulate_sell(exchanges, op.currency, sell_amount_usdt, op)
       IN /\ exchanges' = r.exchanges
          /\ prev' = exchanges
          /\ leg_usd' = sell_amount_usdt
          /\ IF r.err # "" THEN pc' = "raised" /\ err' = Raised(r.err)
             ELSE pc' = "revert" /\ err' = err
    /\ UNCHANGED <<gateway, cache, conversion_prices, opportunities, op, cycle>>

\* self.revert_to_dollars() (line 540).
RevertStep ==
    /\ pc = "revert"
    /\ LET r == revert_to_dollars(exchanges, cache) IN
       /\ exchanges' = r.exchanges
       /\ cache' = r.cache
       /\ prev' = exchanges
       /\ IF r.err # "" THEN pc' = "raised" /\ err' = Raised(r.err)
          ELSE pc' = "report" /\ err' = err
    /\ UNCHANGED <<gateway, conversion_prices, opportunities, op, cycle, leg_usd>>

report_coin == 100

\* convert_coin("ETH/USDT", "bybit", 100) and the balance log lines (lines 542-549);
\* run_simulation returns.
ReportStep ==
    /\ pc = "report"
    /\ LET r == convert_coin(exchanges, cache, ETHUSDT, "bybit", R(report_coin)) IN
       /\ exchanges' = r.exchanges
       /\ cache' = r.cache
       /\ prev' = exchanges
       /\ IF r.err # "" THEN pc' = "raised" /\ err' = Raised(r.err) /\ cycle' = cycle
          ELSE pc' = "idle" /\ err' = err /\ cycle' = cycle + 1
    /\ UNCHANGED <<gateway, conversion_prices, opportunities, op, leg_usd>>

\* main.py line 29: once the loop is over the caller reconciles once more.
FinalRevert ==
    /\ pc = "idle" /\ cycle = MaxCycles
    /\ LET r == revert_to_dollars(exchanges, cache) IN
       /\ exchanges' = r.exchanges
       /\ cache' = r.cache
       /\ prev' = exchanges
       /\ IF r.err # "" THEN pc' = "raised" /\ err' = Raised(r.err)
          ELSE pc' = "done" /\ err' = err
    /\ UNCHANGED <<gateway, conversion_prices, opportunities, op, cycle, leg_usd>>

Next ==
    \/ RunSimulation
    \/ FindStep
    \/ SelectStep
    \/ BuyStep
    \/ SellStep
    \/ RevertStep
    \/ ReportStep
    \/ FinalRevert

Spec == Init /\ [][Next]_vars

----------------------------------------------------------------------------
(* The finder alone: find_opportunities called on a venue list.             *)

FinderMarkets ==
    { [v \in Venues |-> Symbols],
      [v \in Venues |-> IF v = "kraken" THEN {ETHUSDT} ELSE Symbols] }

InitFinder ==
    /\ apiExchanges = <<"bybit", "bitstamp", "kraken">>
    /\ scanList \in {<<"bybit", "bitstamp">>, <<"bybit", "bitstamp", "kraken">>}
    /\ markets \in FinderMarkets
    /\ market \in [Keys -> PriceSet]
    /\ down = {}
    /\ pair_lists = <<>>
    /\ hashOrder \in Perms
    /\ \E mpd \in ThresholdSet, sel \in AllowLists, top \in {1, TopNDefault} :
          config = Config(mpd, sel, top, R(1), R(1000))
    /\ initial_balance = R(6000)
    /\ cache = <<>>
    /\ exchanges = <<>>
    /\ conversion_prices = <<>>
    /\ opportunities = <<>>
    /\ op = None
    /\ pc = "idle"
    /\ cycle = 0
    /\ prev = <<>>
    /\ leg_usd = Zero
    /\ err = NoErr

CallFind ==
    /\ pc = "idle"
    /\ LET r == find_opportunities(cache, scanList) IN
       /\ cache' = r.cache
       /\ opportunities' = r.val
       /\ IF r.err # "" THEN pc' = "raised" /\ err' = Raised(r.err)
          ELSE pc' = "found" /\ err' = err
    /\ UNCHANGED <<gateway, exchanges, conversion_prices, op, cycle, prev, leg_usd>>

NextFinder == CallFind

SpecFinder == InitFinder /\ [][NextFinder]_vars

----------------------------------------------------------------------------
(* The selector alone: get_best_opportunity and execute_best_trade called   *)
(* on a list of opportunity records.                                        *)

SpreadPrices == {R(1), R(2), R(3)}

OppPool ==
    { [buy_exchange |-> "bybit", sell_exchange |-> "bitstamp", currency |-> ETHUSDT,
       buy_price |-> b, sell_price |-> s] : b \in SpreadPrices, s \in SpreadPrices }

OppLists == UNION { [1..n -> OppPool] : n \in 0..MaxLen }

InitSelector ==
    /\ apiExchanges = <<"bybit", "bitstamp">>
    /\ scanList = <<"bybit", "bitstamp">>
    /\ markets = [v \in Venues |-> Symbols]
    /\ market = [k \in Keys |-> R(2000)]
    /\ down = {}
    /\ pair_lists = <<>>
    /\ hashOrder = <<BTCUSDT, ETHUSDT>>
    /\ config = Config(Frac(1, 100), <<>>, TopNDefault, R(1), R(1000))
    /\ initial_balance = R(6000)
    /\ cache = <<>>
    /\ exchanges = <<>>
    /\ conversion_prices = <<>>
    /\ opportunities \in OppLists
    /\ op = None
    /\ pc = "idle"
    /\ cycle = 0
    /\ prev = <<>>
    /\ leg_usd = Zero
    /\ err = NoErr

CallGetBest ==
    /\ pc = "idle"
    /\ LET r == get_best_opportunity(opportunities) IN
       /\ op' = r.val
       /\ err' = IF r.err # "" THEN Raised(r.err) ELSE err
    /\ pc' = "selected"
    /\ UNCHANGED <<gateway, cache, exchanges, conversion_prices, opportunities, cycle,
                   prev, leg_usd>>

CallExecuteBestTrade ==
    /\ pc = "idle"
    /\ LET r == execute_best_trade(opportunities) IN
       /\ op' = r.val
       /\ err' = IF r.err # "" THEN Raised(r.err) ELSE err
    /\ pc' = "executed"
    /\ UNCHANGED <<gateway, cache, exchanges, conversion_prices, opportunities, cycle,
                   prev, leg_usd>>

NextSelector == CallGetBest \/ CallExecuteBestTrade

SpecSelector == InitSelector /\ [][NextSelector]_vars

----------------------------------------------------------------------------
(* Seeding and reconciliation alone: create_balance once, then              *)
(* revert_to_dollars twice, while the venues' prices move.                  *)

InitReconcile ==
    /\ apiExchanges \in {<<"bybit", "bitstamp">>, <<"bybit", "bitstamp", "kraken">>}
    /\ scanList = <<"bybit", "bitstamp">>
    /\ markets \in { [v \in Venues |-> Symbols], [v \in Venues |-> {BTCUSDT}] }
    /\ \E pb, pe \in PriceSet, qb, qe \in PriceSet :
          market = [k \in Keys |->
                       IF k[2] = "bybit" THEN (IF k[1] = BTCUSDT THEN pb ELSE pe)
                       ELSE (IF k[1] = BTCUSDT THEN qb ELSE qe)]
    /\ down = {}
    /\ pair_lists = <<>>
    /\ hashOrder \in Perms
    /\ \E sel \in AllowLists : config = Config(Frac(1, 100), sel, TopNDefault, R(1), R(1000))
    /\ initial_balance = R(6000)
    /\ cache = <<>>
    /\ exchanges = <<>>
    /\ conversion_prices = <<>>
    /\ opportunities = <<>>
    /\ op = None
    /\ pc = "idle"
    /\ cycle = 0
    /\ prev = <<>>
    /\ leg_usd = Zero
    /\ err = NoErr

\* simulation_trading.create_balance()
CallCreateBalance ==
    /\ pc = "idle"
    /\ LET r == create_balance(exchanges, cache, conversion_prices) IN
       /\ exchanges' = r.exchanges
       /\ cache' = r.cache
       /\ conversion_prices' = r.conversion_prices
       /\ prev' = exchanges
       /\ IF r.err # "" THEN pc' = "raised" /\ err' = Raised(r.err)
          ELSE pc' = "seeded" /\ err' = err
    /\ UNCHANGED <<gateway, opportunities, op, cycle, leg_usd>>

\* A configured venue's last price of one symbol moves (the venue's side of
\* fetch_ticker, line 51).
PriceTick ==
    /\ pc \in {"seeded", "reverted"}
    /\ \E k \in Symbols \X Range(apiExchanges), p \in PriceSet :
          /\ p # market[k]
          /\ market' = [market EXCEPT ![k] = p]
    /\ UNCHANGED <<apiExchanges, markets, down, hashOrder, config, initial_balance,
                   scanList, pair_lists, cache, exchanges, conversion_prices,
                   opportunities, op, pc, cycle, prev, leg_usd, err>>

\* simulation_trading.revert_to_dollars(), a first and then a second time.
CallRevert ==
    /\ pc \in {"seeded", "reverted"}
    /\ LET r == revert_to_dollars(exchanges, cache) IN
       /\ exchanges' = r.exchanges
       /\ cache' = r.cache
       /\ prev' = exchanges
       /\ IF r.err # "" THEN pc' = "raised" /\ err' = Raised(r.err)
          ELSE pc' = (IF pc = "seeded" THEN "reverted" ELSE "reverted2") /\ err' = err
    /\ UNCHANGED <<gateway, conversion_prices, opportunities, op, cycle, leg_usd>>

NextReconcile == CallCreateBalance \/ PriceTick \/ CallRevert

SpecReconcile == InitReconcile /\ [][NextReconcile]_vars

----------------------------------------------------------------------------
(* The finder against a failing gateway: some ticker requests fail, or a    *)
(* venue of the list is not among the configured ones.                      *)

OutageSets == { {}, {<<ETHUSDT, "bitstamp">>}, {<<BTCUSDT, "bybit">>} }

InitOutage ==
    /\ apiExchanges \in {<<"bybit", "bitstamp">>, <<"bybit", "bitstamp", "kraken">>}
    /\ scanList = <<"bybit", "bitstamp", "kraken">>
    /\ markets = [v \in Venues |-> Symbols]
    /\ \E high \in SUBSET (Symbols \X {"bybit", "bitstamp"}) :
          market = [k \in Keys |-> IF k \in high THEN R(2020) ELSE R(2000)]
    /\ down \in OutageSets
    /\ pair_lists = <<>>
    /\ hashOrder \in Perms
    /\ \E mpd \in {Frac(1, 100), R(30)}, sel \in AllowLists :
          config = Config(mpd, sel, TopNDefault, R(1), R(1000))
    /\ initial_balance = R(6000)
    /\ cache = <<>>
    /\ exchanges = <<>>
    /\ conversion_prices = <<>>
    /\ opportunities = <<>>
    /\ op = None
    /\ pc = "idle"
    /\ cycle = 0
    /\ prev = <<>>
    /\ leg_usd = Zero
    /\ err = NoErr

NextOutage == CallFind

SpecOutage == InitOutage /\ [][NextOutage]_vars

----------------------------------------------------------------------------
(* The common pairs alone: get_common_currency_pairs called on a venue list. *)

ListingSets == {Symbols, {BTCUSDT}, {ETHUSDT}}

InitPairs ==
    /\ apiExchanges = <<"bybit", "bitstamp", "kraken">>
    /\ scanList \in {<<"bybit", "bitstamp">>, <<"bybit", "bitstamp", "kraken">>}
    /\ markets \in [Venues -> ListingSets]
    /\ market = [k \in Keys |-> R(2000)]
    /\ down = {}
    /\ pair_lists = <<>>
    /\ hashOrder \in Perms
    /\ \E sel \in AllowLists, top \in {1, 2, TopNDefault} :
          config = Config(Frac(1, 100), sel, top, R(1), R(1000))
    /\ initial_balance = R(6000)
    /\ cache = <<>>
    /\ exchanges = <<>>
    /\ conversion_prices = <<>>
    /\ opportunities = <<>>
    /\ op = None
    /\ pc = "idle"
    /\ cycle = 0
    /\ prev = <<>>
    /\ leg_usd = Zero
    /\ err = NoErr

\* exchange_api.get_common_currency_pairs(exchange_list)
CallCommonPairs ==
    /\ pc = "idle"
    /\ LET r == get_common_currency_pairs(scanList) IN
       /\ pair_lists' = r.val
       /\ IF r.err # "" THEN pc' = "raised" /\ err' = Raised(r.err)
          ELSE pc' = "listed" /\ err' = err
    /\ UNCHANGED <<apiExchanges, markets, market, down, hashOrder, config,
                   initial_balance, scanList, cache, exchanges, conversion_prices,
                   opportunities, op, cycle, prev, leg_usd>>

NextPairs == CallCommonPairs

SpecPairs == InitPairs /\ [][NextPairs]_vars

----------------------------------------------------------------------------
(* The legs alone on a seeded ledger: create_balance, then simulate_buy and *)
(* simulate_sell for an opportunity on one of the seeded pairs, over pairs  *)
(* with the reference currency as quote, as base, and on neither side.      *)

ETHBTC == <<"ETH", "BTC">>

USDTBTC == <<"USDT", "BTC">>

USDTUSD == <<"USDT", "USD">>

LegSymbols == Symbols \cup {ETHBTC, USDTBTC, USDTUSD}

LegAllowLists ==
    { <<ETHUSDT>>, <<BTCUSDT>>, <<USDTBTC>>, <<ETHBTC>>, <<USDTUSD>>,
      <<ETHBTC, BTCUSDT>>, <<ETHUSDT, ETHBTC>> }

LegAmounts == {R(100), R(40000)}

InitLegs ==
    /\ apiExchanges = <<"bybit", "bitstamp">>
    /\ scanList = <<"bybit", "bitstamp">>
    /\ markets = [v \in Venues |-> LegSymbols]
    /\ \E pb, qb \in PriceSet :
          market = [k \in LegSymbols \X Venues |-> IF k[2] = "bybit" THEN pb ELSE qb]
    /\ down = {}
    /\ pair_lists = <<>>
    /\ hashOrder \in Perms
    /\ \E sel \in LegAllowLists :
          config = Config(Frac(1, 100), sel, TopNDefault, R(1), R(1000))
    /\ initial_balance = R(6000)
    /\ cache = <<>>
    /\ exchanges = <<>>
    /\ conversion_prices = <<>>
    /\ opportunities = <<>>
    /\ op = None
    /\ pc = "idle"
    /\ cycle = 0
    /\ prev = <<>>
    /\ leg_usd = Zero
    /\ err = NoErr

\* The pairs create_balance seeds: the common pairs of the configured venues.
SeededPairs == Range(extend_all(get_common_currency_pairs(apiExchanges).val))

\* simulate_buy(currency_pair, usd_amount, opportunities) for an opportunity
\* record on a seeded pair between two configured venues.
CallSimulateBuy ==
    /\ pc = "seeded"
    /\ \E s \in SeededPairs, b \in Range(apiExchanges), e \in Range(apiExchanges),
          amount \in LegAmounts :
          /\ b # e
          /\ LET o == [buy_exchange |-> b, sell_exchange |-> e, currency |-> s,
                       buy_price |-> market[<<s, b>>], sell_price |-> market[<<s, e>>]]
                 r == simulate_buy(exchanges, s, amount, o)
             IN /\ op' = o
                /\ leg_usd' = amount
                /\ exchanges' = r.exchanges
                /\ prev' = exchanges
                /\ IF r.err # "" THEN pc' = "raised" /\ err' = Raised(r.err)
                   ELSE pc' = "bought" /\ err' = err
    /\ UNCHANGED <<gateway, cache, conversion_prices, opportunities, cycle>>

\* simulate_sell(currency_pair, usd_amount, opportunities) for the same record.
CallSimulateSell ==
    /\ pc = "bought"
    /\ LET r == simulate_sell(exchanges, op.currency, leg_usd, op) IN
       /\ exchanges' = r.exchanges
       /\ prev' = exchanges
       /\ IF r.err # "" THEN pc' = "raised" /\ err' = Raised(r.err)
          ELSE pc' = "sold" /\ err' = err
    /\ UNCHANGED <<gateway, cache, conversion_prices, opportunities, op, cycle, leg_usd>>

NextLegs == CallCreateBalance \/ CallSimulateBuy \/ CallSimulateSell

SpecLegs == InitLegs /\ [][NextLegs]_vars

----------------------------------------------------------------------------
(* Claims.                                                                  *)

Cash(ex, v) == ex[v]["balance"]

Holdings(ex, v) == DOMAIN ex[v] \ {"balance"}

\* The buy leg of the current cycle has been run on ledger prev with notional leg_usd.
BuyLegRan == op # None /\ (pc = "sell" \/ (pc = "raised" /\ err.at = "buy"))

\* C1: a buy leg whose notional N exceeds the buy venue's pre-trade cash C is
\* rejected with InsufficientFunds and leaves the venue's cash at exactly C.
C1_OverdrawnBuyRejected ==
    (BuyLegRan /\ RLt(Cash(prev, op.buy_exchange), leg_usd))
        => /\ err.name = "InsufficientFunds"
           /\ Cash(exchanges, op.buy_exchange) = Cash(prev, op.buy_exchange)

\* C2: in every reachable state every entry of every venue's balance sheet, cash
\* and holdings alike, is >= 0.
C2_LedgerNonNegative ==
    \A v \in DOMAIN exchanges : \A k \in DOMAIN exchanges[v] : RLe(Zero, exchanges[v][k])

\* C3: every opportunity the finder returns has buy_price strictly below sell_price.
C3_BuyBelowSell ==
    \A k \in 1..Len(opportunities) :
        RLt(opportunities[k].buy_price, opportunities[k].sell_price)

\* The opportunities of the returned list for venue pair {a, b} and symbol s.
Hits(a, b, s) ==
    {k \in 1..Len(opportunities) :
        /\ opportunities[k].currency = s
        /\ {opportunities[k].buy_exchange, opportunities[k].sell_exchange} = {a, b}}

\* C4: for every unordered venue pair and every symbol of the pair's common list
\* (the allow-list or the capped intersection of the listings) the finder emits
\* exactly one opportunity when |price_a - price_b| >= min_price_difference and none
\* below it; the one emitted buys at the lower price on the venue quoting it and
\* sells at the higher price on the venue quoting that, and nothing else is emitted.
C4_OnePerPairAtThreshold ==
    pc = "found" =>
        /\ \A i, j \in 1..Len(scanList) : i < j =>
              LET a == scanList[i]
                  b == scanList[j]
              IN \A s \in Range(common_of(a, b)) :
                    LET pa == market[<<s, a>>]
                        pb == market[<<s, b>>]
                        lo == IF RLt(pb, pa) THEN pb ELSE pa
                        hi == IF RLt(pb, pa) THEN pa ELSE pb
                    IN IF RLe(config.min_price_difference, RAbs(RSub(pa, pb)))
                       THEN /\ Cardinality(Hits(a, b, s)) = 1
                            /\ \A k \in Hits(a, b, s) :
                                  /\ opportunities[k].buy_price = lo
                                  /\ opportunities[k].sell_price = hi
                                  /\ market[<<s, opportunities[k].buy_exchange>>] = lo
                                  /\ market[<<s, opportunities[k].sell_exchange>>] = hi
                       ELSE Hits(a, b, s) = {}
        /\ \A k \in 1..Len(opportunities) :
              \E i, j \in 1..Len(scanList) :
                 /\ i < j
                 /\ k \in Hits(scanList[i], scanList[j], opportunities[k].currency)
                 /\ opportunities[k].currency \in Range(common_of(scanList[i], scanList[j]))

\* Scenario A reached: prices 2000 and 2020, threshold 0.01, one opportunity buying
\* on the first venue at 2000 and selling on the second at 2020.
C4_Witness ==
    /\ pc = "found"
    /\ config.min_price_difference = Frac(1, 100)
    /\ market[<<ETHUSDT, "bybit">>] = R(2000)
    /\ market[<<ETHUSDT, "bitstamp">>] = R(2020)
    /\ \E k \in Hits("bybit", "bitstamp", ETHUSDT) :
          /\ opportunities[k].buy_exchange = "bybit"
          /\ opportunities[k].sell_exchange = "bitstamp"
          /\ spread(opportunities[k]) = R(20)

NonPositive(opps) == \A k \in 1..Len(opps) : RLe(spread(opps[k]), Zero)

C6_SelectsMaxSpread ==
    (pc = "selected" /\ opportunities # <<>> /\ ~NonPositive(opportunities)) =>
        /\ err.name = ""
        /\ op \in Range(opportunities)
        /\ \A k \in 1..Len(opportunities) : RLe(spread(opportunities[k]), spread(op))

C6_Witness ==
    /\ pc = "selected"
    /\ Len(opportunities) = 3
    /\ spread(opportunities[1]) = R(1)
    /\ spread(opportunities[2]) = R(2)
    /\ spread(opportunities[3]) = R(-1)
    /\ op = opportunities[2]

\* C7: seeding happens once: a cycle after the first starts from the ledger the
\* previous cycle left, so entering run_simulation again leaves the ledger as it was.
C7_NoReseed ==
    (pc = "find" /\ cycle >= 1) => exchanges = prev

\* C8: with no opportunity found, or with the selector reporting "not profitable",
\* the cycle runs no leg and goes straight to reconciliation.
C8_SkipToReconcile ==
    [][((pc = "select" /\ opportunities = <<>>) \/ (pc = "buy" /\ op = None))
          => (pc' = "revert" /\ exchanges' = exchanges)]_vars

\* C9: once find_opportunities has returned, the cycle reaches reconciliation and
\* its report: no failure of selection or of a leg escapes run_simulation.
C9_CycleCompletes ==
    pc = "raised" => err.at \in {"idle", "find"}

\* C10: after revert_to_dollars has returned, every non-cash amount of every venue
\* is exactly 0.
C10_RevertZeroes ==
    pc \in {"report", "done"} =>
        \A v \in DOMAIN exchanges : \A k \in Holdings(exchanges, v) : exchanges[v][k] = Zero

\* A reconciliation that found a non-zero holding, one of them negative.
C10_Witness ==
    /\ pc = "report"
    /\ \E v \in DOMAIN prev : \E k \in Holdings(prev, v) : RLt(Zero, prev[v][k])
    /\ \E v \in DOMAIN prev : \E k \in Holdings(prev, v) : RLt(prev[v][k], Zero)

\* C11: revert_to_dollars is idempotent: called twice in sequence with no trade
\* in between, the second call leaves every venue's cash and holdings exactly
\* as the first call left them.
C11_RevertIdempotent == pc = "reverted2" => exchanges = prev

\* The second call has returned, and the first one had holdings to convert.
C11_Witness ==
    /\ pc = "reverted2"
    /\ \E v \in DOMAIN exchanges :
          /\ Holdings(exchanges, v) # {}
          /\ RLt(RMul(Frac(1, 3), initial_balance), Cash(exchanges, v))

\* What venue v's holdings in todo are worth at the venue's present prices.
RECURSIVE ValueNow(_, _, _)
ValueNow(todo, ex, v) ==
    IF todo = {} THEN Zero
    ELSE LET currency == CHOOSE x \in todo : TRUE
         IN RAdd(RMul(ex[v][currency], market[<<<<currency, "USDT">>, v>>]),
                 ValueNow(todo \ {currency}, ex, v))

\* C12: reconciliation credits each venue's cash with amount * price at the
\* venue's price current at the time of the call, also when the price has moved
\* since seeding.
C12_RevertAtCurrentPrice ==
    [][(pc = "seeded" /\ pc' = "reverted")
          => \A v \in DOMAIN exchanges :
                Cash(exchanges', v) =
                    RAdd(Cash(exchanges, v), ValueNow(Holdings(exchanges, v), exchanges, v))]_vars


\* A venue's share of initial_balance when it is divided over the configured venues.
VenueShare == RDiv(initial_balance, R(Len(apiExchanges)))

\* C13: seeding gives each of the V venues a share initial_balance / V, keeps one
\* third of the share as the venue's cash and converts the other two thirds,
\* split evenly over the distinct main currencies, at the seed-time price.
C13_SeedShares ==
    pc = "seeded"
        => \A v \in DOMAIN exchanges :
              /\ Cash(exchanges, v) = RMul(Frac(1, 3), VenueShare)
              /\ \A currency \in Holdings(exchanges, v) :
                    RMul(exchanges[v][currency], conversion_prices[v][currency])
                        = RDiv(RMul(Frac(2, 3), VenueShare),
                               R(Cardinality(Holdings(exchanges, v))))


\* Control is at the sell leg although the buy leg's debit of leg_usd exceeded
\* the buy venue's cash on the ledger prev it ran on.
SellAfterOverdrawnBuy == pc = "sell" /\ RLt(Cash(prev, op.buy_exchange), leg_usd)

\* C14: the sell leg is executed only after a successful buy leg: when the buy
\* leg's debit would fail, the buy leg changes no balance sheet and the sell leg
\* is not executed, so the opportunity changes neither venue's sheet.
C14_NoSellAfterAbortedBuy ==
    [][SellAfterOverdrawnBuy
          => /\ exchanges = prev
             /\ exchanges' = exchanges
             /\ pc' # "revert"]_vars

\* The sell leg of the current cycle has been run on ledger prev with notional leg_usd.
SellLegRan == op # None /\ (pc = "revert" \/ (pc = "raised" /\ err.at = "sell"))

\* The main-currency quantity the latest sell leg takes from the sell venue.
SoldQuantity == leg_currency_amount(leg_usd, op.sell_price)

\* C15: a sell leg whose quantity exceeds the sell venue's holding of the main
\* currency fails with InsufficientHolding and leaves the ledger as it was before
\* the leg.
C15_OversoldSellRejected ==
    (/\ SellLegRan
     /\ leg_main_currency(op.currency) \in DOMAIN prev[op.sell_exchange]
     /\ RLt(prev[op.sell_exchange][leg_main_currency(op.currency)], SoldQuantity))
        => /\ err.name = "InsufficientHolding"
           /\ exchanges = prev


\* The three caps of the sizing rule for opportunity o against cash amount balance.
BalanceFractionCap(balance) == RMul(balance, config.max_trade_balance_percentage)

SpreadBasedCap(o) == RMul(spread(o), config.price_difference_threshold)

AbsolutePositionCap == config.max_position_size

\* C17: the notional a cycle's buy leg debits from the buy venue's cash is the
\* least of the three caps, computed from the cash the venue had before the leg.
C17_NotionalIsMinOfCaps ==
    pc = "sell"
        => RSub(Cash(prev, op.buy_exchange), Cash(exchanges, op.buy_exchange))
              = RMin(RMin(BalanceFractionCap(Cash(prev, op.buy_exchange)),
                          SpreadBasedCap(op)),
                     AbsolutePositionCap)


\* The commission of a leg of notional leg_usd: the rate's share, at most the cap.
LegCommission == RMin(RMul(leg_usd, commission), R(max_commission))

\* C18: a successful buy leg with notional N at price p decreases the buy
\* venue's cash by exactly N, increases its main-currency holding by exactly
\* (N - min(N * commission, max_commission)) / p and changes no other entry of
\* any venue; the commission charged, N less the value bought, never exceeds
\* max_commission.
C18_BuyLegEffect ==
    pc = "sell"
        => LET b == op.buy_exchange
               main_currency == leg_main_currency(op.currency)
               bought == RSub(exchanges[b][main_currency], prev[b][main_currency])
           IN /\ Cash(exchanges, b) = RSub(Cash(prev, b), leg_usd)
              /\ bought = RDiv(RSub(leg_usd, LegCommission), op.buy_price)
              /\ RLe(RSub(leg_usd, RMul(bought, op.buy_price)), R(max_commission))
              /\ DOMAIN exchanges = DOMAIN prev
              /\ \A v \in DOMAIN prev :
                    /\ DOMAIN exchanges[v] = DOMAIN prev[v]
                    /\ \A k \in DOMAIN prev[v] :
                          (v # b \/ k \notin {"balance", main_currency})
                              => exchanges[v][k] = prev[v][k]

\* A buy leg has succeeded whose commission was cut down to the cap.
C18_Witness ==
    /\ pc = "sell"
    /\ RLt(R(max_commission), RMul(leg_usd, commission))
    /\ Cash(exchanges, op.buy_exchange) # Cash(prev, op.buy_exchange)


\* C19: once seeded, the balance sheets are changed only by the legs and by
\* reconciliation: the finding, selecting and reporting steps of a cycle leave
\* every venue's cash and holdings unchanged.
C19_OnlyLegsAndRevertWrite ==
    [][(pc \in {"find", "select", "report"}) => (exchanges' = exchanges)]_vars


\* Venue v is one the gateway was configured with.
Known(v) == v \in Range(apiExchanges)

\* The scan of symbol s on venue pair (a, b) meets a failing ticker request.
Affected(a, b, s) == <<s, a>> \in down \/ <<s, b>> \in down

\* C16: a gateway failure during a scan is isolated: when a ticker request fails
\* for one (symbol, venue), or a venue of the list is unknown to the gateway, the
\* finder raises nothing, emits nothing for the affected symbol or venue pair,
\* and still emits the opportunity of every unaffected symbol and venue pair
\* whose prices differ by the threshold or more.
C16_FailureIsolated ==
    pc \in {"found", "raised"} =>
        /\ pc = "found"
        /\ \A i, j \in 1..Len(scanList) : i < j =>
              LET a == scanList[i]
                  b == scanList[j]
              IN IF Known(a) /\ Known(b)
                 THEN \A s \in Range(common_of(a, b)) :
                         IF Affected(a, b, s) THEN Hits(a, b, s) = {}
                         ELSE RLe(config.min_price_difference,
                                  RAbs(RSub(market[<<s, a>>], market[<<s, b>>])))
                                 => Cardinality(Hits(a, b, s)) = 1
                 ELSE \A s \in Symbols : Hits(a, b, s) = {}


\* The symbols in lexicographic order of their names ("BTC/USDT" < "ETH/USDT").
SortedSymbols == <<BTCUSDT, ETHUSDT>>

\* C20: the list returned for a venue pair is, with a non-empty allow-list, the
\* allow-list symbols listed on both venues in allow-list order; otherwise the
\* intersection of the two listings in sorted order cut to top_n entries, the
\* same for every call against the same listings.
C20_CommonSymbolsSorted ==
    pc = "listed" =>
        /\ Len(pair_lists) = Len(index_pairs(1, 2, Len(scanList)))
        /\ \A k \in 1..Len(pair_lists) :
              LET a == pair_lists[k].pair[1]
                  b == pair_lists[k].pair[2]
                  both(s) == s \in markets[a] /\ s \in markets[b]
              IN pair_lists[k].currencies =
                    IF config.selected_assets # <<>>
                    THEN SelectSeq(config.selected_assets, both)
                    ELSE take(SelectSeq(SortedSymbols, both), config.top_n)


\* A leg has just been run on ledger prev for the opportunity op.
LegRan == pc \in {"bought", "sold"} \/ (pc = "raised" /\ err.at \in {"seeded", "bought"})

\* The venue whose sheet the leg just run writes.
LegVenue ==
    IF pc = "bought" \/ (pc = "raised" /\ err.at = "seeded")
    THEN op.buy_exchange ELSE op.sell_exchange

\* C21: the main currency whose holding the buy and sell legs credit and debit
\* is the one seeding chose and funded for the symbol, so a leg for a seeded
\* symbol finds the holding entry seeding created and writes that entry.
C21_LegsUseSeededCurrency ==
    LegRan
        => LET funded == seed_main_currency(op.currency) IN
           /\ leg_main_currency(op.currency) = funded
           /\ err.name # "KeyError"
           /\ funded \in DOMAIN prev[LegVenue]
           /\ exchanges[LegVenue][funded] # prev[LegVenue][funded]


\* Every price recorded at seeding is the venue's present price of the currency.
PricesAsSeeded ==
    \A v \in DOMAIN conversion_prices : \A currency \in DOMAIN conversion_prices[v] :
        market[<<<<currency, "USDT">>, v>>] = conversion_prices[v][currency]

\* The amount converted into the holdings in todo of venue v at the recorded
\* seed-time prices.
RECURSIVE ConvertedAtSeed(_, _, _)
ConvertedAtSeed(todo, ex, v) ==
    IF todo = {} THEN Zero
    ELSE LET currency == CHOOSE x \in todo : TRUE
         IN RAdd(RMul(ex[v][currency], conversion_prices[v][currency]),
                 ConvertedAtSeed(todo \ {currency}, ex, v))

\* What venue v was seeded with on ledger ex: its cash reserve plus the amount converted.
SeededValue(ex, v) == RAdd(Cash(ex, v), ConvertedAtSeed(Holdings(ex, v), ex, v))

RECURSIVE TotalSeeded(_, _)
TotalSeeded(todo, ex) ==
    IF todo = {} THEN Zero
    ELSE LET v == CHOOSE x \in todo : TRUE
         IN RAdd(SeededValue(ex, v), TotalSeeded(todo \ {v}, ex))

RECURSIVE TotalCash(_, _)
TotalCash(todo, ex) ==
    IF todo = {} THEN Zero
    ELSE LET v == CHOOSE x \in todo : TRUE
         IN RAdd(Cash(ex, v), TotalCash(todo \ {v}, ex))

====
